---- MODULE Spec2Model ----
(***************************************************************************)
(* Model of uvk's text core (src/src/uvk/_parse.py):                       *)
(*   parse_dependencies      the dependency-list normalizer                *)
(*   iter_lines_metadata     the comment-line generator                    *)
(*   parse_script_metadata   the PEP 723 script-metadata extractor         *)
(* Strings are sequences of one-character strings, so that splitting,      *)
(* stripping, slicing and regular-expression matching are computed the way *)
(* the Python code computes them.                                          *)
(***************************************************************************)
EXTENDS Naturals, Sequences, FiniteSets

VARIABLES block, cell, f, specs, gaps, deps, reqs, magic_line, version, m, th, ks

vars ==
    <<block, cell, f, specs, gaps, deps, reqs, magic_line, version, m, th, ks>>

(***************************************************************************)
(* Bounds of the model.                                                    *)
(***************************************************************************)
\* longest metadata block, in lines, of the structural specification
MaxLines == 5
\* longest run of characters appended to a sentinel token
MaxSuffix == 2
\* longest sequence of requirement specifiers
MaxSpecs == 2
\* longest run of whitespace between two specifiers
MaxRun == 2
\* longest text given to parse_dependencies, in characters
MaxDepsLen == 5

(***************************************************************************)
(* Character classes.                                                      *)
(***************************************************************************)
\* the whitespace str.strip() and str.split() remove
Whitespace == {" ", "\t", "\n", "\r"}

\* the characters the regular-expression class \w matches
WordChars ==
    {"a", "b", "c", "d", "e", "i", "n", "p", "r", "s", "t", "1", "_"}

(***************************************************************************)
(* String primitives of Python, on sequences of characters.                *)
(***************************************************************************)
RECURSIVE lstrip(_)
lstrip(s) ==
    IF s = <<>> \/ Head(s) \notin Whitespace THEN s ELSE lstrip(Tail(s))

RECURSIVE rstrip(_)
rstrip(s) ==
    IF s = <<>> \/ s[Len(s)] \notin Whitespace THEN s
    ELSE rstrip(SubSeq(s, 1, Len(s) - 1))

\* str.strip(): drop leading and trailing whitespace
strip(s) == rstrip(lstrip(s))

\* s[n:] with n counted from zero
slice_from(s, n) == SubSeq(s, n + 1, Len(s))

\* s.startswith(p)
startswith(s, p) == Len(s) >= Len(p) /\ SubSeq(s, 1, Len(p)) = p

\* index of the first character of s that is in set cs, or Len(s) + 1
RECURSIVE find_first(_, _, _)
find_first(s, cs, i) ==
    IF i > Len(s) \/ s[i] \in cs THEN i ELSE find_first(s, cs, i + 1)

\* str.split("\n"): always at least one piece, empty pieces kept
RECURSIVE split_nl(_)
split_nl(s) ==
    LET i == find_first(s, {"\n"}, 1)
    IN  IF i > Len(s) THEN <<s>>
        ELSE <<SubSeq(s, 1, i - 1)>> \o split_nl(slice_from(s, i))

\* a variant of split_ws that separates at single spaces only, as
\* str.split(" ") does
RECURSIVE split_space(_)
split_space(s) ==
    LET i == find_first(s, {" "}, 1)
    IN  IF i > Len(s) THEN <<s>>
        ELSE <<SubSeq(s, 1, i - 1)>> \o split_space(slice_from(s, i))

\* str.split(): the maximal runs of non-whitespace, no empty pieces
RECURSIVE split_ws(_)
split_ws(s) ==
    LET t == lstrip(s)
        i == find_first(t, Whitespace, 1)
    IN  IF t = <<>> THEN <<>>
        ELSE <<SubSeq(t, 1, i - 1)>> \o split_ws(slice_from(t, i - 1))

\* sep.join(parts)
RECURSIVE join(_, _)
join(sep, parts) ==
    IF parts = <<>> THEN <<>>
    ELSE IF Len(parts) = 1 THEN parts[1]
    ELSE parts[1] \o sep \o join(sep, Tail(parts))

(***************************************************************************)
(* The regular expressions of the parser.                                  *)
(***************************************************************************)
\* r"# "
PREFIX == <<"#", " ">>

\* the literal part of r"/// script\w*$"
TOKEN_START == <<"/", "/", "/", " ", "s", "c", "r", "i", "p", "t">>

\* the literal part of r"///\w*$"
TOKEN_END == <<"/", "/", "/">>

all_word(s) == \A i \in 1..Len(s) : s[i] \in WordChars

\* re.match(lit + r"\w*$", s): lit at the start, then word characters up to
\* the end of s, or up to a newline that ends s
match_lit_w_eol(lit, s) ==
    /\ startswith(s, lit)
    /\ LET rest == slice_from(s, Len(lit))
       IN  \/ all_word(rest)
           \/ /\ rest # <<>>
              /\ rest[Len(rest)] = "\n"
              /\ all_word(SubSeq(rest, 1, Len(rest) - 1))

\* variants of the two matches: any non-whitespace after the token
match_lit_nonspace(lit, s) ==
    /\ startswith(s, lit)
    /\ \A i \in (Len(lit) + 1)..Len(s) : s[i] \notin Whitespace

match_start_nonspace(line) == match_lit_nonspace(TOKEN_START, line)

match_end_nonspace(line) == match_lit_nonspace(TOKEN_END, line)

\* a variant of match_start that tolerates any spacing before "script"
match_start_lenient(line) ==
    /\ startswith(line, TOKEN_END)
    /\ match_lit_w_eol(<<"s", "c", "r", "i", "p", "t">>,
                       lstrip(slice_from(line, Len(TOKEN_END))))

\* re.match(r"/// script\w*$", line)
match_start(line) == match_lit_w_eol(TOKEN_START, line)

\* re.match(r"///\w*$", line)
match_end(line) == match_lit_w_eol(TOKEN_END, line)

(***************************************************************************)
(* Exceptions: ScriptMetadataParseError and its three subclasses.  Each    *)
(* constructor passes its argument on as the `metadata` attribute.         *)
(***************************************************************************)
ScriptMetadataParseError(kind, metadata) ==
    [kind |-> kind, metadata |-> metadata]

NoScriptMetadataStartLine(metadata) ==
    ScriptMetadataParseError("NoScriptMetadataStartLine", metadata)

NoScriptMetadataEndLine(metadata) ==
    ScriptMetadataParseError("NoScriptMetadataEndLine", metadata)

\* a variant of IllegalLine that keeps a stripped copy of the text
IllegalLine_stripped(metadata) ==
    ScriptMetadataParseError("IllegalLine", strip(metadata))

IllegalLine(metadata) ==
    ScriptMetadataParseError("IllegalLine", metadata)

(***************************************************************************)
(* iter_lines_metadata: a generator.  Its state is the text it was created *)
(* with, the pieces of that text and the index of the next piece to look   *)
(* at.  Nothing is examined before the consumer asks for the next item.    *)
(***************************************************************************)
iter_lines_metadata(metadata) ==
    [metadata |-> metadata, lines |-> split_nl(metadata), pos |-> 1]

\* a variant of next_line that gives blank and bare lines as empty payloads
next_line_keeping(g) ==
    IF g.pos > Len(g.lines)
    THEN [kind |-> "StopIteration", value |-> <<>>, exc |-> <<>>, gen |-> g]
    ELSE LET line == strip(g.lines[g.pos])
             g1   == [g EXCEPT !.pos = g.pos + 1]
         IN  IF line \in {<<>>, <<"#">>}
             THEN [kind |-> "yield", value |-> <<>>, exc |-> <<>>, gen |-> g1]
             ELSE IF startswith(line, PREFIX)
             THEN [kind |-> "yield", value |-> slice_from(line, 2),
                   exc |-> <<>>, gen |-> g1]
             ELSE [kind |-> "raise", value |-> <<>>,
                   exc |-> <<IllegalLine(g.metadata)>>,
                   gen |-> [g1 EXCEPT !.pos = Len(g.lines) + 1]]

\* a variant of next_line that passes over illegal lines
RECURSIVE next_line_lenient(_)
next_line_lenient(g) ==
    IF g.pos > Len(g.lines)
    THEN [kind |-> "StopIteration", value |-> <<>>, exc |-> <<>>, gen |-> g]
    ELSE LET line == strip(g.lines[g.pos])
             g1   == [g EXCEPT !.pos = g.pos + 1]
         IN  IF startswith(line, PREFIX)
             THEN [kind |-> "yield", value |-> slice_from(line, 2),
                   exc |-> <<>>, gen |-> g1]
             ELSE next_line_lenient(g1)

\* next(lines_metadata): runs the generator up to its next yield, its raise
\* of IllegalLine or its exhaustion (StopIteration)
RECURSIVE next_line(_)
next_line(g) ==
    IF g.pos > Len(g.lines)
    THEN [kind |-> "StopIteration", value |-> <<>>, exc |-> <<>>, gen |-> g]
    ELSE LET line == strip(g.lines[g.pos])
             g1   == [g EXCEPT !.pos = g.pos + 1]
         IN  IF line \in {<<>>, <<"#">>}
             THEN next_line(g1)
             ELSE IF startswith(line, PREFIX)
             THEN [kind |-> "yield", value |-> slice_from(line, 2),
                   exc |-> <<>>, gen |-> g1]
             ELSE [kind |-> "raise", value |-> <<>>,
                   exc |-> <<IllegalLine(g.metadata)>>,
                   gen |-> [g1 EXCEPT !.pos = Len(g.lines) + 1]]

(***************************************************************************)
(* tomllib.loads is an external collaborator: the document it returns is   *)
(* identified with the text it is given.                                   *)
(***************************************************************************)
tomllib_loads(text) == [source |-> text]

(***************************************************************************)
(* parse_script_metadata.  Its activation record:                          *)
(*   pc          where the call stands: "idle" (not called), "seek_start", *)
(*               "accumulate", "trailing", "loads", "returned", "raised"   *)
(*   metadata    the parameter                                             *)
(*   gen         lines_metadata, the generator                             *)
(*   lines_toml  the accumulated lines                                     *)
(*   warnings    the TrailingLines warnings signalled by the call          *)
(*   ret, exc    the returned document / the raised exception, as a        *)
(*               sequence of length 0 or 1                                 *)
(***************************************************************************)
NotCalled ==
    [pc |-> "idle", metadata |-> <<>>, gen |-> iter_lines_metadata(<<>>),
     lines_toml |-> <<>>, warnings |-> 0, ret |-> <<>>, exc |-> <<>>]

\* entry: lines_metadata = iter_lines_metadata(metadata)
call_parse(metadata) ==
    [NotCalled EXCEPT !.pc = "seek_start", !.metadata = metadata,
                      !.gen = iter_lines_metadata(metadata)]

\* one turn of `while not re.match(r"/// script\w*$", next(lines_metadata))`
seek_start(a) ==
    LET n == next_line(a.gen)
    IN  CASE n.kind = "StopIteration" ->
               [a EXCEPT !.pc = "raised", !.gen = n.gen,
                         !.exc = <<NoScriptMetadataStartLine(a.metadata)>>]
          [] n.kind = "raise" ->
               [a EXCEPT !.pc = "raised", !.gen = n.gen, !.exc = n.exc]
          [] n.kind = "yield" ->
               IF match_start(n.value)
               THEN [a EXCEPT !.pc = "accumulate", !.gen = n.gen,
                              !.lines_toml = <<>>]
               ELSE [a EXCEPT !.gen = n.gen]

\* a variant of accumulate without the else branch of the loop: running
\* out of lines ends the accumulation like an end sentinel
accumulate_no_else(a) ==
    LET n == next_line(a.gen)
    IN  CASE n.kind = "StopIteration" ->
               [a EXCEPT !.pc = "trailing", !.gen = n.gen]
          [] n.kind = "raise" ->
               [a EXCEPT !.pc = "raised", !.gen = n.gen, !.exc = n.exc]
          [] n.kind = "yield" ->
               IF match_end(n.value)
               THEN [a EXCEPT !.pc = "trailing", !.gen = n.gen]
               ELSE [a EXCEPT !.gen = n.gen,
                              !.lines_toml = Append(a.lines_toml, n.value)]

\* one turn of `for line in lines_metadata`, with its else branch
accumulate(a) ==
    LET n == next_line(a.gen)
    IN  CASE n.kind = "StopIteration" ->
               [a EXCEPT !.pc = "raised", !.gen = n.gen,
                         !.exc = <<NoScriptMetadataEndLine(a.metadata)>>]
          [] n.kind = "raise" ->
               [a EXCEPT !.pc = "raised", !.gen = n.gen, !.exc = n.exc]
          [] n.kind = "yield" ->
               IF match_end(n.value)
               THEN [a EXCEPT !.pc = "trailing", !.gen = n.gen]
               ELSE [a EXCEPT !.gen = n.gen,
                              !.lines_toml = Append(a.lines_toml, n.value)]

\* the number of lines the generator still yields
RECURSIVE count_yields(_)
count_yields(g) ==
    LET n == next_line(g)
    IN  IF n.kind = "yield" THEN 1 + count_yields(n.gen) ELSE 0

\* a variant of check_trailing that warns once per trailing line
check_trailing_each(a) ==
    LET n == next_line(a.gen)
    IN  CASE n.kind = "StopIteration" ->
               [a EXCEPT !.pc = "loads", !.gen = n.gen]
          [] n.kind = "raise" ->
               [a EXCEPT !.pc = "raised", !.gen = n.gen, !.exc = n.exc]
          [] n.kind = "yield" ->
               [a EXCEPT !.pc = "loads", !.gen = n.gen,
                         !.warnings = a.warnings + count_yields(a.gen)]

\* try: next(lines_metadata); w.warn(...)  except StopIteration: pass
check_trailing(a) ==
    LET n == next_line(a.gen)
    IN  CASE n.kind = "StopIteration" ->
               [a EXCEPT !.pc = "loads", !.gen = n.gen]
          [] n.kind = "raise" ->
               [a EXCEPT !.pc = "raised", !.gen = n.gen, !.exc = n.exc]
          [] n.kind = "yield" ->
               [a EXCEPT !.pc = "loads", !.gen = n.gen,
                         !.warnings = a.warnings + 1]

\* a variant of loads that joins the lines with spaces
loads_space_joined(a) ==
    [a EXCEPT !.pc = "returned",
              !.ret = <<tomllib_loads(join(<<" ">>, a.lines_toml))>>]

\* return tomllib.loads("\n".join(lines_toml))
loads(a) ==
    [a EXCEPT !.pc = "returned",
              !.ret = <<tomllib_loads(join(<<"\n">>, a.lines_toml))>>]

step_parse(a) ==
    CASE a.pc = "seek_start" -> seek_start(a)
      [] a.pc = "accumulate" -> accumulate(a)
      [] a.pc = "trailing"   -> check_trailing(a)
      [] a.pc = "loads"      -> loads(a)
      [] OTHER               -> a

RECURSIVE run_parse(_)
run_parse(a) ==
    IF a.pc \in {"idle", "returned", "raised"} THEN a
    ELSE run_parse(step_parse(a))

\* the whole call, as a function of its argument
parse_script_metadata(metadata) == run_parse(call_parse(metadata))

(***************************************************************************)
(* Threads calling parse_script_metadata.  Each thread has the activation  *)
(* record a of its current call and the log of the outcomes of its calls;  *)
(* what the threads share is the interpreter's record of the warnings      *)
(* already shown (__warningregistry__), which w.warn consults under the    *)
(* filter "default" and not under the filter "always": registry tells      *)
(* whether the TrailingLines warning has been shown, and shown counts the  *)
(* warnings of a call that were.                                           *)
(***************************************************************************)
NoThreads == [threads |-> <<>>, filter |-> "default", registry |-> FALSE]

NewThread == [a |-> NotCalled, shown |-> 0, log |-> <<>>]

\* what a finished call leaves for its caller to see
outcome(a, shown) ==
    [metadata |-> a.metadata, pc |-> a.pc, ret |-> a.ret,
     kind |-> IF a.exc = <<>> THEN <<>> ELSE <<a.exc[1].kind>>,
     warnings |-> a.warnings, shown |-> shown]

\* thread t calls parse_script_metadata(metadata)
thread_call(s, t, metadata) ==
    [s EXCEPT !.threads[t].a = call_parse(metadata),
              !.threads[t].shown = 0]

\* a variant of thread_step where a warning the registry has is not
\* signalled either
thread_step_once(s, t) ==
    LET a1     == step_parse(s.threads[t].a)
        warned == a1.warnings > s.threads[t].a.warnings
        shown  == IF warned /\ (s.filter = "always" \/ ~s.registry)
                  THEN s.threads[t].shown + 1
                  ELSE s.threads[t].shown
        a2     == [a1 EXCEPT !.warnings = shown]
    IN  [s EXCEPT !.registry = s.registry \/ (warned /\ s.filter = "default"),
                  !.threads[t].a = a2,
                  !.threads[t].shown = shown,
                  !.threads[t].log =
                      IF a2.pc \in {"returned", "raised"}
                      THEN Append(s.threads[t].log, outcome(a2, shown))
                      ELSE s.threads[t].log]

\* thread t takes the next step of its call; w.warn shows the warning
\* unless the registry has it, and a call that ends is logged
thread_step(s, t) ==
    LET a1     == step_parse(s.threads[t].a)
        warned == a1.warnings > s.threads[t].a.warnings
        shown  == IF warned /\ (s.filter = "always" \/ ~s.registry)
                  THEN s.threads[t].shown + 1
                  ELSE s.threads[t].shown
    IN  [s EXCEPT !.registry = s.registry \/ (warned /\ s.filter = "default"),
                  !.threads[t].a = a1,
                  !.threads[t].shown = shown,
                  !.threads[t].log =
                      IF a1.pc \in {"returned", "raised"}
                      THEN Append(s.threads[t].log, outcome(a1, shown))
                      ELSE s.threads[t].log]

(***************************************************************************)
(* parse_dependencies: [dep.strip() for dep in deps.split()]               *)
(***************************************************************************)
\* the sequence s without the elements that occur earlier in it
RECURSIVE dedup(_)
dedup(s) ==
    IF s = <<>> THEN <<>>
    ELSE LET front == SubSeq(s, 1, Len(s) - 1)
             last  == s[Len(s)]
         IN  IF \E i \in 1..Len(front) : front[i] = last
             THEN dedup(front)
             ELSE Append(dedup(front), last)

\* a variant of parse_dependencies that keeps each specifier once
parse_dependencies_dedup(d) == dedup(split_ws(d))

parse_dependencies(d) ==
    LET parts == split_ws(d)
    IN  [i \in 1..Len(parts) |-> strip(parts[i])]

(***************************************************************************)
(* The document tomllib.loads returns, as far as the magics look into it:  *)
(* lines of the form key = value, a value being a quoted string or a       *)
(* bracketed list of quoted strings.                                       *)
(***************************************************************************)
\* s without its first and last character (quotes or brackets)
unwrap(s) == SubSeq(s, 2, Len(s) - 1)

\* s.split(","), each piece stripped
RECURSIVE split_comma(_)
split_comma(s) ==
    LET i == find_first(s, {","}, 1)
    IN  IF i > Len(s) THEN <<strip(s)>>
        ELSE <<strip(SubSeq(s, 1, i - 1))>> \o split_comma(slice_from(s, i))

toml_key(l) == strip(SubSeq(l, 1, find_first(l, {"="}, 1) - 1))

toml_value(l) ==
    LET v == strip(slice_from(l, find_first(l, {"="}, 1)))
    IN  IF v # <<>> /\ v[1] = "["
        THEN IF strip(unwrap(v)) = <<>> THEN <<>>
             ELSE LET items == split_comma(unwrap(v))
                  IN  [i \in 1..Len(items) |-> unwrap(items[i])]
        ELSE unwrap(v)

\* key in doc
toml_has(doc, key) ==
    \E i \in 1..Len(split_nl(doc.source)) :
        toml_key(split_nl(doc.source)[i]) = key

\* doc[key]
toml_get(doc, key) ==
    LET ls == split_nl(doc.source)
        i  == CHOOSE n \in 1..Len(ls) : toml_key(ls[n]) = key
    IN  toml_value(ls[i])

\* "require-python", the key script_metadata looks up
KEY_REQUIRE_PYTHON ==
    <<"r", "e", "q", "u", "i", "r", "e", "-", "p", "y", "t", "h", "o", "n">>

\* "dependencies"
KEY_DEPENDENCIES ==
    <<"d", "e", "p", "e", "n", "d", "e", "n", "c", "i", "e", "s">>

(***************************************************************************)
(* The collaborators of the magics.                                        *)
(***************************************************************************)
DigitOf(c) == CASE c = "1" -> 1 [] c = "2" -> 2 [] c = "3" -> 3 [] OTHER -> 0

\* SpecifierSet(spec) can be built: an operator and a version
specifier_ok(spec) ==
    Len(spec) = 2 /\ spec[1] \in {"<", ">"} /\ spec[2] \in {"1", "2", "3"}

\* v in SpecifierSet(spec)
specifier_contains(spec, v) ==
    IF spec[1] = ">" THEN DigitOf(v) > DigitOf(spec[2])
    ELSE DigitOf(v) < DigitOf(spec[2])

\* Requirement(dep) accepts dep: a requirement starts with a name
requirement_ok(dep) == dep # <<>> /\ dep[1] \in {"a", "b"}

(***************************************************************************)
(* The magics script_metadata and dependencies, and _require_python and    *)
(* _install_requirements under them.  The activation record:               *)
(*   pc         "idle", "start", "parsing", "require", "deps", "install",  *)
(*              "done", "failed"                                           *)
(*   name       the magic                                                  *)
(*   warned     RuntimeWarnings about an ignored line argument             *)
(*   checked    evaluations of a version constraint                        *)
(*   notice     the Markdown notices displayed, each a list of lines       *)
(*   installing _install_requirements has been entered                     *)
(*   reqs, idx  its argument and the index of the next requirement         *)
(*   file       the lines printed to the requirements file                 *)
(*   uv_runs    the runs of uv pip install, each with the file it read     *)
(*   exc        the exception the magic ended with, length 0 or 1          *)
(***************************************************************************)
NoMagic ==
    [pc |-> "idle", name |-> "", warned |-> 0, checked |-> 0,
     notice |-> <<>>, installing |-> FALSE, reqs |-> <<>>, idx |-> 1,
     file |-> <<>>, uv_runs |-> <<>>, exc |-> <<>>]

magic_start(name) == [NoMagic EXCEPT !.pc = "start", !.name = name]

magic_raise(c, kind) == [c EXCEPT !.pc = "failed", !.exc = <<kind>>]

\* script_metadata up to the call of parse_script_metadata: the warning
\* about a non-empty line
script_metadata_enter(c, ln) ==
    [c EXCEPT !.pc = "parsing",
              !.warned = IF ln # <<>> THEN c.warned + 1 ELSE c.warned]

\* a variant of script_metadata_parsed that goes on to the dependencies
\* without the version check
script_metadata_parsed_unchecked(c, a) ==
    IF a.pc = "raised" THEN magic_raise(c, a.exc[1].kind)
    ELSE [c EXCEPT !.pc = "deps"]

\* sm = parse_script_metadata(str(cell)): an error ends the magic
script_metadata_parsed(c, a) ==
    IF a.pc = "raised" THEN magic_raise(c, a.exc[1].kind)
    ELSE [c EXCEPT !.pc = "require"]

\* _require_python(spec)
require_python(c, spec, v) ==
    IF ~specifier_ok(spec) THEN magic_raise(c, "InvalidSpecifier")
    ELSE IF ~specifier_contains(spec, v)
    THEN magic_raise([c EXCEPT !.checked = c.checked + 1],
                     "PythonRequirementNotSatisfied")
    ELSE [c EXCEPT !.checked = c.checked + 1]

\* if "require-python" in sm: _require_python(sm["require-python"])
script_metadata_require(c, doc, v) ==
    IF toml_has(doc, KEY_REQUIRE_PYTHON)
    THEN LET c1 == require_python(c, toml_get(doc, KEY_REQUIRE_PYTHON), v)
         IN  IF c1.pc = "failed" THEN c1 ELSE [c1 EXCEPT !.pc = "deps"]
    ELSE [c EXCEPT !.pc = "deps"]

\* entry of _install_requirements(requirements)
install_enter(c, requirements) ==
    [c EXCEPT !.pc = "install", !.installing = TRUE, !.reqs = requirements,
              !.idx = 1, !.file = <<>>]

\* if "dependencies" in sm: _install_requirements(sm["dependencies"])
script_metadata_dependencies(c, doc) ==
    IF toml_has(doc, KEY_DEPENDENCIES)
    THEN install_enter(c, toml_get(doc, KEY_DEPENDENCIES))
    ELSE [c EXCEPT !.pc = "done"]

\* a variant of install_validate that leaves a rejected requirement out
install_validate_skipping(c) ==
    IF requirement_ok(c.reqs[c.idx])
    THEN [c EXCEPT !.idx = c.idx + 1, !.file = Append(c.file, c.reqs[c.idx])]
    ELSE [c EXCEPT !.idx = c.idx + 1]

\* one turn of the loop over requirements: Requirement(dep); print(dep, ...)
install_validate(c) ==
    IF requirement_ok(c.reqs[c.idx])
    THEN [c EXCEPT !.idx = c.idx + 1, !.file = Append(c.file, c.reqs[c.idx])]
    ELSE magic_raise(c, "InvalidRequirement")

\* file.flush(); sp.run(cmd).check_returncode(), uv ending with code rc
install_run(c, rc) ==
    LET c1 == [c EXCEPT !.uv_runs = Append(c.uv_runs, c.file)]
    IN  IF rc = 0 THEN [c1 EXCEPT !.pc = "done"]
        ELSE magic_raise(c1, "CalledProcessError")

\* dependencies_raw
dependencies_raw(ln, cl) ==
    strip(IF ln # <<>> /\ cl # <<>> THEN strip(ln) \o <<"\n">> \o cl
          ELSE IF ln # <<>> THEN ln ELSE cl)

\* [line.strip() for line in dependencies_raw.split("\n")]
stripped_lines(raw) ==
    [i \in 1..Len(split_nl(raw)) |-> strip(split_nl(raw)[i])]

\* a variant of dependencies_irregular that forgets the line argument
dependencies_irregular_cell_only(ln, cl) ==
    /\ cl # <<>>
    /\ parse_dependencies(dependencies_raw(ln, cl))
           # stripped_lines(dependencies_raw(ln, cl))

\* the condition under which dependencies displays its notice
dependencies_irregular(ln, cl) ==
    /\ cl # <<>>
    /\ \/ ln # <<>>
       \/ parse_dependencies(dependencies_raw(ln, cl))
              # stripped_lines(dependencies_raw(ln, cl))

\* the cell the Markdown notice suggests: the magic, then one requirement
\* a line
notice_for(normalized) ==
    <<"%%dependencies">> \o [i \in 1..Len(normalized) |-> normalized[i]]

\* dependencies(line, cell) up to the call of _install_requirements
dependencies_enter(c, ln, cl) ==
    LET normalized == parse_dependencies(dependencies_raw(ln, cl))
        c1 == IF dependencies_irregular(ln, cl)
              THEN [c EXCEPT !.notice = Append(c.notice, notice_for(normalized))]
              ELSE c
    IN  install_enter(c1, normalized)

(***************************************************************************)
(* install_kernelspec, the context manager of the command line, over the   *)
(* part of the file system it touches.  The activation record:             *)
(*   pc        "idle", "start", "mkdir", "copy", "rewrite", "body",        *)
(*             "write", "returned", "raised"                               *)
(*   dir       a directory exists at path_kernelspec                       *)
(*   files     its files, a function from names to contents                *)
(*   existed, original   dir and files when the call started               *)
(*   res_dir   the resource directory of the python3 kernelspec exists     *)
(*   todo      the resource files iterdir has yet to give                  *)
(*   argv      the resource kernel.json has an "argv" entry                *)
(*   exc       the exception the call ended with, length 0 or 1            *)
(***************************************************************************)
KERNEL_JSON == "kernel.json"

NoFiles == [n \in {} |-> ""]

NoKernelspec ==
    [pc |-> "idle", dir |-> FALSE, files |-> NoFiles, existed |-> FALSE,
     original |-> NoFiles, res_dir |-> FALSE, todo |-> {}, argv |-> FALSE,
     exc |-> <<>>]

\* the file system with one more file, or one file overwritten
with_file(files, n, content) ==
    [x \in DOMAIN files \cup {n} |-> IF x = n THEN content ELSE files[x]]

\* raise KernelSpecAlreadyExists(path_kernelspec), outside the try
ks_refuse(k) ==
    [k EXCEPT !.pc = "raised", !.exc = <<"KernelSpecAlreadyExists">>]

\* except Exception as err: shutil.rmtree(path_kernelspec,
\* ignore_errors=True); raise
ks_destroy(k, kind) ==
    [k EXCEPT !.pc = "raised", !.exc = <<kind>>, !.dir = FALSE,
              !.files = NoFiles]

\* if path_kernelspec.is_dir() and path_kernel_json.is_file(): raise ...
ks_check(k) ==
    IF k.dir /\ KERNEL_JSON \in DOMAIN k.files THEN ks_refuse(k)
    ELSE [k EXCEPT !.pc = "mkdir"]

\* path_kernelspec.mkdir(parents=True, exist_ok=False), the operating
\* system allowing it or not
ks_mkdir(k, allowed) ==
    IF k.dir THEN ks_destroy(k, "FileExistsError")
    ELSE IF ~allowed THEN ks_destroy(k, "OSError")
    ELSE [k EXCEPT !.pc = "copy", !.dir = TRUE]

\* assert path_resources_kernelspec.is_dir(), then one turn of the loop
\* over iterdir() with p the file it gives: shutil.copy succeeds or not
ks_copy(k, p, copied) ==
    IF ~k.res_dir THEN ks_destroy(k, "AssertionError")
    ELSE IF ~copied THEN ks_destroy(k, "OSError")
    ELSE [k EXCEPT !.files = with_file(k.files, p, "resource"),
                   !.todo = k.todo \ {p}]

\* from the end of the loop to the yield: the two assertions
ks_rewrite(k) ==
    IF ~k.res_dir \/ KERNEL_JSON \notin DOMAIN k.files \/ ~k.argv
    THEN ks_destroy(k, "AssertionError")
    ELSE [k EXCEPT !.pc = "body"]

\* the body of the with statement, which ends normally or with an exception
\* thrown into the generator at the yield
ks_body(k, normally) ==
    IF normally THEN [k EXCEPT !.pc = "write"]
    ELSE ks_destroy(k, "Exception")

\* path_kernel_json.write_text(json.dumps(kernelspec), ...)
ks_write(k, written) ==
    IF written
    THEN [k EXCEPT !.pc = "returned",
                   !.files = with_file(k.files, KERNEL_JSON, "kernelspec")]
    ELSE ks_destroy(k, "OSError")

(***************************************************************************)
(* The inputs.                                                             *)
(***************************************************************************)
\* the non-empty sequences over S of length at most n
SeqsUpTo(S, n) == UNION {[1..k -> S] : k \in 1..n}

\* the sequences over S of length at most n, the empty one included
SeqsFrom0(S, n) == UNION {[1..k -> S] : k \in 0..n}

L_START   == PREFIX \o TOKEN_START
L_END     == PREFIX \o TOKEN_END
L_A       == <<"#", " ", "a">>
L_B       == <<" ", "#", " ", " ", "b", "\t">>
L_EMPTY   == <<>>
L_BARE    == <<"#">>
L_NOSPACE == <<"#", "/", "/", "/">>
L_NOHASH  == <<"a", "=", "1">>
L_SLASH_END == PREFIX \o TOKEN_END \o <<" ", "e", "n", "d">>

\* lines of the structural specification
StructLines ==
    {L_START, L_END, L_A, L_B, L_EMPTY, L_BARE, L_NOSPACE, L_NOHASH}

StructBlocks == SeqsUpTo(StructLines, MaxLines)

\* sentinel candidates: a token, then a run of word, non-word and space
\* characters
SentinelTokens ==
    {TOKEN_START, TOKEN_END,
     <<"/", "/", "/", "s", "c", "r", "i", "p", "t">>,
     <<"/", "/", "/", " ", " ", "s", "c", "r", "i", "p", "t">>}

SuffixChars == {"d", "-", " "}

Suffixes == SeqsFrom0(SuffixChars, MaxSuffix)

SentinelLines ==
    {PREFIX \o t \o s : t \in SentinelTokens, s \in Suffixes}
    \cup {L_A, L_EMPTY, L_BARE}

SentinelClosers == {L_END, L_A, L_EMPTY, L_NOSPACE, L_SLASH_END}

SentinelBlocks ==
    {<<a>> : a \in SentinelLines}
    \cup {<<a, b>> : a \in SentinelLines, b \in SentinelLines}
    \cup {<<a, b, c>> : a \in SentinelLines, b \in SentinelLines,
                        c \in SentinelClosers}

\* requirement specifiers, and the whitespace between them
SpecPool == {<<"a">>, <<"b", "=", "1">>}

Runs == SeqsUpTo({" ", "\t", "\n"}, MaxRun)

\* specifiers S with gaps G around and between them: G[1] S[1] G[2] ... 
RECURSIVE interleave(_, _)
interleave(S, G) ==
    IF S = <<>> THEN G[1]
    ELSE G[1] \o S[1] \o interleave(Tail(S), Tail(G))

\* what may stand before the first and after the last specifier
Edges == {<<>>, <<" ">>, <<"\n", "\t">>}

GapsFor(S) ==
    IF S = <<>> THEN {<<g>> : g \in Edges}
    ELSE {<<lead>> \o mid \o <<trail>> :
              lead \in Edges, mid \in [1..(Len(S) - 1) -> Runs],
              trail \in Edges}

(***************************************************************************)
(* The state machine.  block is the list of lines a notebook cell is made  *)
(* of and cell its text; f is the activation record of                     *)
(* parse_script_metadata(cell).  specs and gaps are what a dependency      *)
(* declaration is made of, deps its text and reqs the result of            *)
(* parse_dependencies(deps), as a sequence of length 0 or 1.               *)
(***************************************************************************)
NoDeps == specs = <<>> /\ gaps = <<>> /\ deps = <<>> /\ reqs = <<>>

\* no magic command, no thread and no kernelspec installation is under way
Elsewhere ==
    /\ magic_line = <<>>
    /\ version = ""
    /\ m = NoMagic
    /\ th = NoThreads
    /\ ks = NoKernelspec

InitBlocks(blocks) ==
    /\ block \in blocks
    /\ cell = join(<<"\n">>, block)
    /\ f = NotCalled
    /\ NoDeps
    /\ Elsewhere

Init == InitBlocks(StructBlocks)

InitSentinel == InitBlocks(SentinelBlocks)

InitDeps ==
    /\ block = <<>>
    /\ cell = <<>>
    /\ f = NotCalled
    /\ specs \in SeqsFrom0(SpecPool, MaxSpecs)
    /\ gaps \in GapsFor(specs)
    /\ deps = interleave(specs, gaps)
    /\ reqs = <<>>
    /\ Elsewhere

\* any text over a few characters, for parse_dependencies
DepChars == {"a", "b", " ", "\t", "\n"}

InitDepsAny ==
    /\ block = <<>>
    /\ cell = <<>>
    /\ f = NotCalled
    /\ specs = <<>>
    /\ gaps = <<>>
    /\ deps \in SeqsFrom0(DepChars, MaxDepsLen)
    /\ reqs = <<>>
    /\ Elsewhere

Call ==
    /\ f.pc = "idle"
    /\ f' = call_parse(cell)
    /\ UNCHANGED <<block, cell, specs, gaps, deps, reqs>>
    /\ UNCHANGED <<magic_line, version, m, th, ks>>

SeekStart ==
    /\ f.pc = "seek_start"
    /\ f' = seek_start(f)
    /\ UNCHANGED <<block, cell, specs, gaps, deps, reqs>>
    /\ UNCHANGED <<magic_line, version, m, th, ks>>

Accumulate ==
    /\ f.pc = "accumulate"
    /\ f' = accumulate(f)
    /\ UNCHANGED <<block, cell, specs, gaps, deps, reqs>>
    /\ UNCHANGED <<magic_line, version, m, th, ks>>

CheckTrailing ==
    /\ f.pc = "trailing"
    /\ f' = check_trailing(f)
    /\ UNCHANGED <<block, cell, specs, gaps, deps, reqs>>
    /\ UNCHANGED <<magic_line, version, m, th, ks>>

Loads ==
    /\ f.pc = "loads"
    /\ f' = loads(f)
    /\ UNCHANGED <<block, cell, specs, gaps, deps, reqs>>
    /\ UNCHANGED <<magic_line, version, m, th, ks>>

ParseDependencies ==
    /\ reqs = <<>>
    /\ reqs' = <<parse_dependencies(deps)>>
    /\ UNCHANGED <<block, cell, f, specs, gaps, deps>>
    /\ UNCHANGED <<magic_line, version, m, th, ks>>

Next == Call \/ SeekStart \/ Accumulate \/ CheckTrailing \/ Loads

NextDeps == ParseDependencies

Spec == Init /\ [][Next]_vars

SpecSentinel == InitSentinel /\ [][Next]_vars

SpecDeps == InitDeps /\ [][NextDeps]_vars

SpecDepsAny == InitDepsAny /\ [][NextDeps]_vars

(***************************************************************************)
(* Vocabulary of the claims, on the lines of the block.                    *)
(***************************************************************************)
\* a line the scan skips: blank, or a bare comment marker
IsSkipped(l) == strip(l) = <<>> \/ strip(l) = <<"#">>

\* a line that carries the two-character prefix
IsPrefixed(l) == ~IsSkipped(l) /\ startswith(strip(l), PREFIX)

\* a line that is neither
IsIllegal(l) == ~IsSkipped(l) /\ ~IsPrefixed(l)

\* the text after the prefix
PayloadOf(l) == slice_from(strip(l), 2)

\* tok immediately followed by non-whitespace characters only
NonSpaceSentinel(tok, p) ==
    /\ startswith(p, tok)
    /\ \A i \in (Len(tok) + 1)..Len(p) : p[i] \notin Whitespace

\* tok immediately followed by letters, digits and underscores only
WordSentinel(tok, p) ==
    /\ startswith(p, tok)
    /\ \A i \in (Len(tok) + 1)..Len(p) : p[i] \in WordChars

IsStartLine(l) == IsPrefixed(l) /\ WordSentinel(TOKEN_START, PayloadOf(l))

IsEndLine(l) == IsPrefixed(l) /\ WordSentinel(TOKEN_END, PayloadOf(l))

HasStart == \E i \in DOMAIN block : IsStartLine(block[i])

\* index of the first start-sentinel line
FirstStart ==
    CHOOSE i \in DOMAIN block :
        IsStartLine(block[i]) /\ \A j \in 1..(i - 1) : ~IsStartLine(block[j])

HasEnd == HasStart /\ \E i \in (FirstStart + 1)..Len(block) : IsEndLine(block[i])

\* index of the first end-sentinel line after the first start-sentinel line
FirstEnd ==
    CHOOSE i \in (FirstStart + 1)..Len(block) :
        /\ IsEndLine(block[i])
        /\ \A j \in (FirstStart + 1)..(i - 1) : ~IsEndLine(block[j])

\* the payloads of the prefixed lines among ls, in order
RECURSIVE PayloadsOf(_)
PayloadsOf(ls) ==
    IF ls = <<>> THEN <<>>
    ELSE (IF IsPrefixed(Head(ls)) THEN <<PayloadOf(Head(ls))>> ELSE <<>>)
         \o PayloadsOf(Tail(ls))

NoIllegalIn(lo, hi) == \A i \in lo..hi : ~IsIllegal(block[i])

Done == f.pc \in {"returned", "raised"}

Raised(kind) == f.pc = "raised" /\ f.exc[1].kind = kind

(***************************************************************************)
(* C1: parse_script_metadata fails with IllegalLine for every block that   *)
(* contains an illegal line (non-blank, not a bare `#`, without the `# `   *)
(* prefix), wherever the line sits, also after other trailing lines.       *)
(***************************************************************************)
C1_IllegalLineAnywhere ==
    (Done /\ \E i \in DOMAIN block : IsIllegal(block[i]))
        => Raised("IllegalLine")

(***************************************************************************)
(* C2: on success, the text handed to the configuration parser is exactly  *)
(* the payloads of the lines strictly between the first start-sentinel     *)
(* line and the first end-sentinel line after it, in order, joined with    *)
(* newlines; preamble and trailing lines contribute nothing.               *)
(***************************************************************************)
C2_DocumentIsBody ==
    f.pc = "returned" =>
        /\ HasEnd
        /\ f.ret = <<tomllib_loads(join(<<"\n">>,
                       PayloadsOf(SubSeq(block, FirstStart + 1, FirstEnd - 1))))>>

\* a preamble line, the start line, two body lines, the end line
C2_Witness ==
    /\ f.pc = "returned"
    /\ block = <<L_A, L_START, L_B, L_A, L_END>>
    /\ f.ret[1].source = <<" ", "b", "\n", "a">>

(***************************************************************************)
(* C3: a well-formed block followed by n prefixed lines (and any blank or  *)
(* bare `#` lines) parses to the document of the block alone, with exactly *)
(* one TrailingLines warning when n >= 1 and none when n = 0.              *)
(***************************************************************************)
TrailingCount ==
    Cardinality({i \in (FirstEnd + 1)..Len(block) : IsPrefixed(block[i])})

WellFormedThenTrailing ==
    /\ HasEnd
    /\ NoIllegalIn(1, Len(block))

C3_OneWarning ==
    (Done /\ WellFormedThenTrailing) =>
        /\ f.pc = "returned"
        /\ f.ret = parse_script_metadata(
                       join(<<"\n">>, SubSeq(block, 1, FirstEnd))).ret
        /\ f.warnings = (IF TrailingCount >= 1 THEN 1 ELSE 0)

\* two trailing lines, one warning
C3_Witness ==
    /\ f.pc = "returned"
    /\ WellFormedThenTrailing
    /\ TrailingCount = 2
    /\ f.warnings = 1

(***************************************************************************)
(* C4: in the seek-start phase a payload line is accepted as the start     *)
(* sentinel whenever it is `/// script` immediately followed by zero or    *)
(* more non-whitespace characters of any kind.                             *)
(***************************************************************************)
\* the payload of the line the generator has just yielded
Yielded(a) == PayloadOf(block[a.gen.pos - 1])

C4_AnyNonWhitespaceStarts ==
    [][(/\ f.pc = "seek_start"
        /\ f'.pc \in {"seek_start", "accumulate"}
        /\ NonSpaceSentinel(TOKEN_START, Yielded(f')))
       => f'.pc = "accumulate"]_vars

\* C4 as amended: accepted exactly when `/// script` is immediately followed
\* by zero or more word characters (letters, digits, underscore)
C4_WordCharsStart ==
    [][(/\ f.pc = "seek_start"
        /\ f'.pc \in {"seek_start", "accumulate"})
       => (f'.pc = "accumulate" <=> WordSentinel(TOKEN_START, Yielded(f')))]_vars

\* `/// script-` was passed over and `/// scriptd` accepted
C4_Witness ==
    /\ f.pc = "accumulate"
    /\ block = <<L_START \o <<"-">>, L_START \o <<"d">> >>

(***************************************************************************)
(* C5: in the accumulate phase a payload line ends accumulation whenever   *)
(* it is `///` immediately followed by zero or more non-whitespace         *)
(* characters of any kind; every other payload line is accumulated.        *)
(***************************************************************************)
C5_AnyNonWhitespaceEnds ==
    [][(/\ f.pc = "accumulate"
        /\ f'.pc \in {"accumulate", "trailing"})
       => IF NonSpaceSentinel(TOKEN_END, Yielded(f'))
          THEN f'.pc = "trailing" /\ f'.lines_toml = f.lines_toml
          ELSE /\ f'.pc = "accumulate"
               /\ f'.lines_toml = Append(f.lines_toml, Yielded(f'))]_vars

\* C5 as amended: accumulation ends exactly when `///` is immediately
\* followed by zero or more word characters; every other payload line is
\* accumulated
C5_WordCharsEnd ==
    [][(/\ f.pc = "accumulate"
        /\ f'.pc \in {"accumulate", "trailing"})
       => IF WordSentinel(TOKEN_END, Yielded(f'))
          THEN f'.pc = "trailing" /\ f'.lines_toml = f.lines_toml
          ELSE /\ f'.pc = "accumulate"
               /\ f'.lines_toml = Append(f.lines_toml, Yielded(f'))]_vars

\* `///-` was accumulated and `///` ended the accumulation
C5_Witness ==
    /\ f.pc = "trailing"
    /\ block = <<L_START, L_END \o <<"-">>, L_END>>
    /\ f.lines_toml = <<TOKEN_END \o <<"-">> >>

(***************************************************************************)
(* C6: if every non-skipped line carries the prefix and no payload line    *)
(* matches the start sentinel, the call fails with                         *)
(* NoScriptMetadataStartLine: the empty string, blank and bare `#` lines   *)
(* only, `# ///script`, `# ///  script`, also with a valid end line after. *)
(***************************************************************************)
C6_NoStartLine ==
    (Done /\ NoIllegalIn(1, Len(block)) /\ ~HasStart)
        => Raised("NoScriptMetadataStartLine")

\* `# ///script`, a content line and a valid end line
C6_Witness ==
    /\ Raised("NoScriptMetadataStartLine")
    /\ block = <<PREFIX \o <<"/", "/", "/", "s", "c", "r", "i", "p", "t">>,
                 L_A, L_END>>

(***************************************************************************)
(* C7: if a start sentinel is found, every later non-skipped line carries  *)
(* the prefix and no later payload line matches the end sentinel, the call *)
(* fails with NoScriptMetadataEndLine and returns no document.             *)
(***************************************************************************)
C7_NoEndLine ==
    (Done /\ HasStart /\ NoIllegalIn(1, Len(block)) /\ ~HasEnd)
        => Raised("NoScriptMetadataEndLine") /\ f.ret = <<>>

\* the only closing candidate is `# /// end`
C7_Witness ==
    /\ Raised("NoScriptMetadataEndLine")
    /\ block = <<L_START, L_A, L_SLASH_END>>

(***************************************************************************)
(* C8: IllegalLine takes precedence over the missing-sentinel errors: a    *)
(* block without a valid start sentinel that has an illegal line fails     *)
(* with IllegalLine, and so does a block with a start sentinel, no valid   *)
(* end sentinel and an illegal line after the start.                       *)
(***************************************************************************)
C8_IllegalLineFirst ==
    /\ (Done /\ ~HasStart /\ \E i \in DOMAIN block : IsIllegal(block[i]))
          => Raised("IllegalLine")
    /\ (Done /\ HasStart /\ ~HasEnd
             /\ \E i \in (FirstStart + 1)..Len(block) : IsIllegal(block[i]))
          => Raised("IllegalLine")

\* a start line, a content line and `#///`
C8_Witness ==
    /\ Raised("IllegalLine")
    /\ block = <<L_START, L_A, L_NOSPACE>>

(***************************************************************************)
(* C9: every error raised by parse_script_metadata is one of the three     *)
(* kinds and carries in its metadata field the complete input string, as   *)
(* the caller passed it.                                                   *)
(***************************************************************************)
ErrorKinds ==
    {"IllegalLine", "NoScriptMetadataStartLine", "NoScriptMetadataEndLine"}

C9_ErrorKeepsInput ==
    f.pc = "raised" =>
        /\ Len(f.exc) = 1
        /\ f.exc[1].kind \in ErrorKinds
        /\ f.exc[1].metadata = cell

\* an IllegalLine on the last of three lines of a text that starts with
\* whitespace
C9_Witness ==
    /\ Raised("IllegalLine")
    /\ block = <<L_B, L_START, L_NOHASH>>
    /\ f.exc[1].metadata = join(<<"\n">>, block)

(***************************************************************************)
(* C10: for any sequence S of specifiers and any way of separating and     *)
(* surrounding them with runs of spaces, tabs and newlines,                *)
(* parse_dependencies returns S, which is also its result on S joined with *)
(* single spaces.                                                          *)
(***************************************************************************)
C10_SeparatorInvariance ==
    reqs # <<>> =>
        /\ reqs[1] = specs
        /\ reqs[1] = parse_dependencies(join(<<" ">>, specs))

\* two specifiers, a space before, a tab and a newline between, a newline
\* and a tab after
C10_Witness ==
    /\ reqs = <<specs>>
    /\ Len(specs) = 2
    /\ gaps = << <<" ">>, <<"\t", "\n">>, <<"\n", "\t">> >>

(***************************************************************************)
(* C11: for every string, parse_dependencies returns exactly the maximal   *)
(* runs of non-whitespace characters of the input, in order of appearance, *)
(* repeated specifiers kept; no element is empty or has whitespace at      *)
(* either end; an empty or whitespace-only string yields the empty         *)
(* sequence; there is always a result.                                     *)
(***************************************************************************)
\* the positions of text t where a maximal run of non-whitespace starts
RunStarts(t) ==
    {i \in 1..Len(t) :
        t[i] \notin Whitespace /\ (i = 1 \/ t[i - 1] \in Whitespace)}

\* the position where the run that starts at i ends
RunEnd(t, i) ==
    CHOOSE j \in i..Len(t) :
        /\ \A n \in i..j : t[n] \notin Whitespace
        /\ (j = Len(t) \/ t[j + 1] \in Whitespace)

\* the k-th run of t
RunNo(t, k) ==
    LET i == CHOOSE n \in RunStarts(t) :
                 Cardinality({x \in RunStarts(t) : x <= n}) = k
    IN  SubSeq(t, i, RunEnd(t, i))

MaximalRuns(t) == [k \in 1..Cardinality(RunStarts(t)) |-> RunNo(t, k)]

C11_MaximalRuns ==
    reqs # <<>> =>
        /\ reqs[1] = MaximalRuns(deps)
        /\ \A k \in 1..Len(reqs[1]) :
              /\ reqs[1][k] # <<>>
              /\ reqs[1][k][1] \notin Whitespace
              /\ reqs[1][k][Len(reqs[1][k])] \notin Whitespace
        /\ ((\A i \in 1..Len(deps) : deps[i] \in Whitespace) => reqs[1] = <<>>)

\* a specifier that occurs twice is returned twice
C11_Witness ==
    /\ deps = <<"a", "\t", "b", "\n", "a">>
    /\ reqs = << << <<"a">>, <<"b">>, <<"a">> >> >>

(***************************************************************************)
(* The magics as a state machine.  A notebook cell runs one magic with     *)
(* magic_line as its line argument and cell as its body, under an          *)
(* interpreter of the given version; m is the activation record of the     *)
(* magic.                                                                  *)
(***************************************************************************)
MaxReqs == 3
MaxCellLen == 4

quoted(x) == <<"\"">> \o x \o <<"\"">>

\* # requires-python = "spec", the key of PEP 723
B_REQUIRES(spec) ==
    <<"r", "e", "q", "u", "i", "r", "e", "s", "-", "p", "y", "t", "h", "o",
      "n", " ", "=", " ">>
    \o quoted(spec)
B_REQUIRES_LINE(spec) == PREFIX \o B_REQUIRES(spec)

\* # require-python = "spec"
B_REQUIRE(spec) == KEY_REQUIRE_PYTHON \o <<" ", "=", " ">> \o quoted(spec)
B_REQUIRE_LINE(spec) == PREFIX \o B_REQUIRE(spec)

\* # dependencies = ["r1", "r2"]
B_DEPS(rs) ==
    KEY_DEPENDENCIES \o <<" ", "=", " ", "[">>
    \o (IF rs = <<>> THEN <<>>
        ELSE join(<<",", " ">>, [i \in 1..Len(rs) |-> quoted(rs[i])]))
    \o <<"]">>
B_DEPS_LINE(rs) == PREFIX \o B_DEPS(rs)

VersionSpecs == {<<">", "2">>, <<"<", "2">>}
Versions == {"1", "3"}

\* requirements: two that Requirement accepts and one it rejects
ReqPool == {<<"a">>, <<"b">>, <<"=", "1">>}
ReqLists == SeqsFrom0(ReqPool, MaxReqs)

LinesRequires == {B_REQUIRES_LINE(sp) : sp \in VersionSpecs}
LinesRequire  == {B_REQUIRE_LINE(sp) : sp \in VersionSpecs}
LinesDeps     == {B_DEPS_LINE(rs) : rs \in ReqLists}

\* bodies of distinct keys
MagicBodies ==
    {<<>>}
    \cup {<<x>> : x \in LinesRequires \cup LinesRequire \cup LinesDeps}
    \cup {<<x, y>> : x \in LinesRequires, y \in LinesRequire \cup LinesDeps}
    \cup {<<x, y>> : x \in LinesRequire, y \in LinesRequires \cup LinesDeps}
    \cup {<<x, y>> : x \in LinesDeps, y \in LinesRequires \cup LinesRequire}

\* blocks parse_script_metadata fails on, with a constraint and
\* dependencies in them
BrokenBlocks ==
    {<<B_REQUIRE_LINE(<<"<", "2">>), B_DEPS_LINE(<<<<"a">>>>), L_END>>,
     <<L_START, B_REQUIRE_LINE(<<"<", "2">>), B_DEPS_LINE(<<<<"a">>>>)>>,
     <<L_START, B_DEPS_LINE(<<<<"a">>>>), L_NOHASH, L_END>>}

MagicBlocks ==
    {<<L_START>> \o b \o <<L_END>> \o t : b \in MagicBodies,
                                         t \in {<<>>, <<L_A>>}}
    \cup BrokenBlocks

\* the text of a dependencies cell, and its line argument
CellChars == {"a", "=", " ", "\n"}
DepLines == {<<>>, <<"a">>, <<" ", "b", " ">>}

InitScriptMetadata ==
    /\ block \in MagicBlocks
    /\ cell = join(<<"\n">>, block)
    /\ magic_line \in {<<>>, <<"x">>}
    /\ version \in Versions
    /\ m = magic_start("script_metadata")

InitDependencies ==
    /\ block = <<>>
    /\ cell \in SeqsFrom0(CellChars, MaxCellLen)
    /\ magic_line \in DepLines
    /\ version = ""
    /\ m = magic_start("dependencies")

InitMagic ==
    /\ InitScriptMetadata \/ InitDependencies
    /\ f = NotCalled
    /\ NoDeps
    /\ th = NoThreads
    /\ ks = NoKernelspec

ScriptMetadata ==
    /\ m.pc = "start"
    /\ m.name = "script_metadata"
    /\ m' = script_metadata_enter(m, magic_line)
    /\ f' = call_parse(cell)
    /\ UNCHANGED <<block, cell, specs, gaps, deps, reqs>>
    /\ UNCHANGED <<magic_line, version, th, ks>>

ScriptMetadataParsed ==
    /\ m.pc = "parsing"
    /\ f.pc \in {"returned", "raised"}
    /\ m' = script_metadata_parsed(m, f)
    /\ UNCHANGED <<block, cell, f, specs, gaps, deps, reqs>>
    /\ UNCHANGED <<magic_line, version, th, ks>>

ScriptMetadataRequire ==
    /\ m.pc = "require"
    /\ m' = script_metadata_require(m, f.ret[1], version)
    /\ UNCHANGED <<block, cell, f, specs, gaps, deps, reqs>>
    /\ UNCHANGED <<magic_line, version, th, ks>>

ScriptMetadataDependencies ==
    /\ m.pc = "deps"
    /\ m' = script_metadata_dependencies(m, f.ret[1])
    /\ UNCHANGED <<block, cell, f, specs, gaps, deps, reqs>>
    /\ UNCHANGED <<magic_line, version, th, ks>>

Dependencies ==
    /\ m.pc = "start"
    /\ m.name = "dependencies"
    /\ m' = dependencies_enter(m, magic_line, cell)
    /\ UNCHANGED <<block, cell, f, specs, gaps, deps, reqs>>
    /\ UNCHANGED <<magic_line, version, th, ks>>

InstallValidate ==
    /\ m.pc = "install"
    /\ m.idx <= Len(m.reqs)
    /\ m' = install_validate(m)
    /\ UNCHANGED <<block, cell, f, specs, gaps, deps, reqs>>
    /\ UNCHANGED <<magic_line, version, th, ks>>

InstallRun ==
    /\ m.pc = "install"
    /\ m.idx > Len(m.reqs)
    /\ \E rc \in {0, 1} : m' = install_run(m, rc)
    /\ UNCHANGED <<block, cell, f, specs, gaps, deps, reqs>>
    /\ UNCHANGED <<magic_line, version, th, ks>>

NextMagic ==
    \/ ScriptMetadata
    \/ SeekStart
    \/ Accumulate
    \/ CheckTrailing
    \/ Loads
    \/ ScriptMetadataParsed
    \/ ScriptMetadataRequire
    \/ ScriptMetadataDependencies
    \/ Dependencies
    \/ InstallValidate
    \/ InstallRun

SpecMagic == InitMagic /\ [][NextMagic]_vars

MagicOver == m.pc \in {"done", "failed"}

MagicFailed(kind) == m.pc = "failed" /\ m.exc = <<kind>>

\* the lines of the block between its start and end sentinels
BodyLines ==
    IF HasStart /\ HasEnd
    THEN {block[i] : i \in (FirstStart + 1)..(FirstEnd - 1)}
    ELSE {}

PRNS == "PythonRequirementNotSatisfied"

(***************************************************************************)
(* C12.  When the cell of script_metadata is a PEP 723 block whose         *)
(* document carries a version constraint under requires-python, the magic  *)
(* evaluates the constraint against the running interpreter, and if the    *)
(* interpreter does not satisfy it the magic fails with                    *)
(* PythonRequirementNotSatisfied.                                          *)
(***************************************************************************)
C12_RequiresPythonEvaluated ==
    \A sp \in VersionSpecs :
        /\ m.name = "script_metadata"
        /\ MagicOver
        /\ f.pc = "returned"
        /\ B_REQUIRES_LINE(sp) \in BodyLines
        => /\ m.checked >= 1
           /\ ~specifier_contains(sp, version) => MagicFailed(PRNS)

(***************************************************************************)
(* C13.  In script_metadata the version check comes strictly before the    *)
(* installation: with a constraint under the key the magic looks up, a     *)
(* dependency list and an interpreter outside the constraint, the magic    *)
(* fails with PythonRequirementNotSatisfied and _install_requirements is   *)
(* never entered; whenever it is entered, the constraint has been          *)
(* evaluated; and when parse_script_metadata fails, the magic fails with   *)
(* its error, nothing is evaluated and nothing is installed.               *)
(***************************************************************************)
C13_CheckBeforeInstall ==
    m.name = "script_metadata" =>
        /\ f.pc = "raised" =>
               /\ m.checked = 0
               /\ ~m.installing
               /\ m.uv_runs = <<>>
               /\ MagicOver => MagicFailed(f.exc[1].kind)
        /\ \A sp \in VersionSpecs :
               B_REQUIRE_LINE(sp) \in BodyLines =>
                   /\ m.installing => m.checked = 1
                   /\ ~specifier_contains(sp, version) =>
                          /\ ~m.installing
                          /\ m.uv_runs = <<>>
                          /\ MagicOver /\ f.pc = "returned"
                                 => MagicFailed(PRNS)

\* the magic has failed on the version with dependencies to install
C13_Witness ==
    /\ m.name = "script_metadata"
    /\ B_REQUIRE_LINE(<<"<", "2">>) \in BodyLines
    /\ B_DEPS_LINE(<< <<"a">>, <<"b">> >>) \in BodyLines
    /\ version = "3"
    /\ MagicFailed(PRNS)
    /\ ~m.installing

(***************************************************************************)
(* C14.  The dependencies magic displays its notice exactly when a cell is *)
(* given and either a line argument is given too or the normalized         *)
(* requirements differ from the lines of the cell, each stripped; and what *)
(* it hands to _install_requirements is in every case the normalized       *)
(* sequence of the requirements of line and cell.                          *)
(***************************************************************************)
C14_NoticeIffCellLinesDiffer ==
    m.name = "dependencies" /\ m.pc # "start" =>
        /\ m.notice # <<>> <=>
               /\ cell # <<>>
               /\ \/ magic_line # <<>>
                  \/ MaximalRuns(cell) # stripped_lines(cell)
        /\ m.reqs = MaximalRuns(magic_line \o <<"\n">> \o cell)

\* C14 as amended: the lines compared are those of the cell once the
\* whitespace around its text is stripped, so that blank lines before the
\* first and after the last requirement do not count
C14_NoticeIffStrippedCellLinesDiffer ==
    m.name = "dependencies" /\ m.pc # "start" =>
        /\ m.notice # <<>> <=>
               /\ cell # <<>>
               /\ \/ magic_line # <<>>
                  \/ MaximalRuns(cell) # stripped_lines(strip(cell))
        /\ Len(m.notice) <= 1
        /\ m.reqs = MaximalRuns(magic_line \o <<"\n">> \o cell)

\* two requirements on one line of the cell: the notice is displayed and
\* both requirements are installed
C14_Witness ==
    /\ m.name = "dependencies"
    /\ magic_line = <<>>
    /\ cell = <<"a", " ", "a", "\n">>
    /\ m.notice = << <<"%%dependencies", <<"a">>, <<"a">> >> >>
    /\ m.uv_runs = << << <<"a">>, <<"a">> >> >>
    /\ m.pc = "done"

(***************************************************************************)
(* C16.  _install_requirements runs the package manager at most once, and  *)
(* only after Requirement has accepted every requirement of the sequence:  *)
(* when one of them, wherever it stands, is rejected, the call fails with  *)
(* the error of Requirement and the package manager is not run at all.     *)
(***************************************************************************)
C16_ValidateAllThenRunOnce ==
    m.installing =>
        /\ Len(m.uv_runs) <= 1
        /\ m.uv_runs # <<>> =>
               /\ \A i \in 1..Len(m.reqs) : requirement_ok(m.reqs[i])
               /\ m.uv_runs[1] = m.reqs
        /\ (\E i \in 1..Len(m.reqs) : ~requirement_ok(m.reqs[i])) =>
               /\ m.uv_runs = <<>>
               /\ MagicOver => MagicFailed("InvalidRequirement")

\* the requirement in the middle was rejected after the first one had been
\* written to the requirements file
C16_Witness ==
    /\ m.installing
    /\ m.reqs = << <<"a">>, <<"=", "1">>, <<"b">> >>
    /\ m.file = << <<"a">> >>
    /\ m.uv_runs = <<>>
    /\ MagicFailed("InvalidRequirement")

(***************************************************************************)
(* install_kernelspec as a state machine: one call, on a file system where *)
(* the kernelspec directory exists or not, with any of a few files in it.  *)
(***************************************************************************)
\* what a kernelspec directory may hold before the call
OldNames == {KERNEL_JSON, "logo.png", "notes"}

\* the files of the resource kernelspec
ResourceNames == {KERNEL_JSON, "logo.png", "logo.svg"}

OldDirs == UNION {[S -> {"old"}] : S \in SUBSET OldNames}

InitKernelspec ==
    /\ \E existed \in BOOLEAN, res_dir \in BOOLEAN, argv \in BOOLEAN :
       \E old \in (IF existed THEN OldDirs ELSE {NoFiles}) :
       \E todo \in (IF res_dir THEN SUBSET ResourceNames ELSE {{}}) :
           ks = [pc |-> "start", dir |-> existed, files |-> old,
                 existed |-> existed, original |-> old, res_dir |-> res_dir,
                 todo |-> todo, argv |-> argv, exc |-> <<>>]
    /\ block = <<>>
    /\ cell = <<>>
    /\ f = NotCalled
    /\ NoDeps
    /\ magic_line = <<>>
    /\ version = ""
    /\ m = NoMagic
    /\ th = NoThreads

KsCheck ==
    /\ ks.pc = "start"
    /\ ks' = ks_check(ks)
    /\ UNCHANGED <<block, cell, f, specs, gaps, deps, reqs>>
    /\ UNCHANGED <<magic_line, version, m, th>>

KsMkdir ==
    /\ ks.pc = "mkdir"
    /\ \E allowed \in BOOLEAN : ks' = ks_mkdir(ks, allowed)
    /\ UNCHANGED <<block, cell, f, specs, gaps, deps, reqs>>
    /\ UNCHANGED <<magic_line, version, m, th>>

KsCopy ==
    /\ ks.pc = "copy"
    /\ ks.todo # {} \/ ~ks.res_dir
    /\ \E p \in ks.todo \cup {KERNEL_JSON}, copied \in BOOLEAN :
           /\ ks.res_dir => p \in ks.todo
           /\ ks' = ks_copy(ks, p, copied)
    /\ UNCHANGED <<block, cell, f, specs, gaps, deps, reqs>>
    /\ UNCHANGED <<magic_line, version, m, th>>

KsRewrite ==
    /\ ks.pc = "copy"
    /\ ks.todo = {}
    /\ ks.res_dir
    /\ ks' = ks_rewrite(ks)
    /\ UNCHANGED <<block, cell, f, specs, gaps, deps, reqs>>
    /\ UNCHANGED <<magic_line, version, m, th>>

KsBody ==
    /\ ks.pc = "body"
    /\ \E normally \in BOOLEAN : ks' = ks_body(ks, normally)
    /\ UNCHANGED <<block, cell, f, specs, gaps, deps, reqs>>
    /\ UNCHANGED <<magic_line, version, m, th>>

KsWrite ==
    /\ ks.pc = "write"
    /\ \E written \in BOOLEAN : ks' = ks_write(ks, written)
    /\ UNCHANGED <<block, cell, f, specs, gaps, deps, reqs>>
    /\ UNCHANGED <<magic_line, version, m, th>>

NextKernelspec ==
    KsCheck \/ KsMkdir \/ KsCopy \/ KsRewrite \/ KsBody \/ KsWrite

SpecKernelspec == InitKernelspec /\ [][NextKernelspec]_vars

(***************************************************************************)
(* C17.  install_kernelspec never destroys what it did not create: when a  *)
(* directory exists at path_kernelspec as the call starts, with or without *)
(* a kernel.json in it, the directory and its files are there, unchanged,  *)
(* however the call ends; only a directory this call created is removed    *)
(* when it fails.                                                          *)
(***************************************************************************)
C17_PreexistingUntouched ==
    /\ ks.existed => ks.dir /\ ks.files = ks.original
    /\ ~ks.existed /\ ks.pc = "raised" => ~ks.dir

(***************************************************************************)
(* C18.  Blank lines and bare # lines are dropped, not kept as empty       *)
(* lines: the accumulated lines, the returned document or the kind of the  *)
(* error, and the warnings of a block are those of the same block with     *)
(* every blank and bare # line removed, and no such line is given to the   *)
(* consumer that tests lines against the sentinels.                        *)
(***************************************************************************)
WithoutSkipped(ls) == SelectSeq(ls, LAMBDA l : ~IsSkipped(l))

ParsedWithoutSkipped ==
    parse_script_metadata(join(<<"\n">>, WithoutSkipped(block)))

C18_SkippedLinesDropped ==
    Done =>
        /\ f.pc = ParsedWithoutSkipped.pc
        /\ f.lines_toml = ParsedWithoutSkipped.lines_toml
        /\ f.ret = ParsedWithoutSkipped.ret
        /\ f.warnings = ParsedWithoutSkipped.warnings
        /\ f.pc = "raised" => f.exc[1].kind = ParsedWithoutSkipped.exc[1].kind
        /\ count_yields(iter_lines_metadata(cell))
               = count_yields(iter_lines_metadata(
                     join(<<"\n">>, WithoutSkipped(block))))

\* a bare and a blank line between two payload lines leave no trace
C18_Witness ==
    /\ block = <<L_START, L_A, L_BARE, L_EMPTY, L_END>>
    /\ f.pc = "returned"
    /\ f.lines_toml = << <<"a">> >>
    /\ f.ret = <<[source |-> <<"a">>]>>

(***************************************************************************)
(* Two threads, each making a few calls of parse_script_metadata one after *)
(* the other, their steps interleaved in any order.                        *)
(***************************************************************************)
MaxCalls == 2

Threads == {1, 2}

\* cells: well-formed, with a trailing line, without end line, illegal
ThreadCells ==
    {join(<<"\n">>, <<L_START, L_A, L_END>>),
     join(<<"\n">>, <<L_START, L_B, L_END, L_A>>),
     join(<<"\n">>, <<L_START, L_A>>),
     join(<<"\n">>, <<L_START, L_NOHASH, L_END>>)}

InitThreads ==
    /\ \E filter \in {"default", "always"} :
           th = [threads |-> [t \in Threads |-> NewThread],
                 filter |-> filter, registry |-> FALSE]
    /\ block = <<>>
    /\ cell = <<>>
    /\ f = NotCalled
    /\ NoDeps
    /\ magic_line = <<>>
    /\ version = ""
    /\ m = NoMagic
    /\ ks = NoKernelspec

ThreadCall(t) ==
    /\ th.threads[t].a.pc \in {"idle", "returned", "raised"}
    /\ Len(th.threads[t].log) < MaxCalls
    /\ \E metadata \in ThreadCells : th' = thread_call(th, t, metadata)
    /\ UNCHANGED <<block, cell, f, specs, gaps, deps, reqs>>
    /\ UNCHANGED <<magic_line, version, m, ks>>

ThreadStep(t) ==
    /\ th.threads[t].a.pc \notin {"idle", "returned", "raised"}
    /\ th' = thread_step(th, t)
    /\ UNCHANGED <<block, cell, f, specs, gaps, deps, reqs>>
    /\ UNCHANGED <<magic_line, version, m, ks>>

NextThreads == \E t \in Threads : ThreadCall(t) \/ ThreadStep(t)

SpecThreads == InitThreads /\ [][NextThreads]_vars

(***************************************************************************)
(* C15.  parse_script_metadata keeps nothing from one call to the next:    *)
(* in any sequence of calls, those of several threads interleaved, the     *)
(* outcome of each call (the document returned or the kind of the error    *)
(* raised, and the number of TrailingLines warnings its caller gets) is    *)
(* that of the same call made alone, a function of its argument.           *)
(***************************************************************************)
Logged == {<<t, i>> \in Threads \X (1..MaxCalls) : i <= Len(th.threads[t].log)}

SameResult(o, alone) ==
    /\ o.pc = alone.pc
    /\ o.ret = alone.ret
    /\ o.kind = outcome(alone, 0).kind

====
